---- MODULE Spec2Model ----
(***************************************************************************)
(* Topic-create transaction: the payload TopicCreateTransactionData, its   *)
(* builder surface on Transaction<TopicCreateTransactionData>, its         *)
(* protobuf codec, checksum validation and execution dispatch              *)
(* (src/src/topic/topic_create_transaction.rs), together with the parts of *)
(* the generic Transaction wrapper the payload is used through.            *)
(***************************************************************************)
EXTENDS Integers, Sequences, FiniteSets, TLC

VARIABLES
    data,            \* the payload, TopicCreateTransactionData
    frozen,          \* the wrapper's frozen flag
    transaction_id,  \* the transaction id; only the paying account is kept
    last,            \* the last call made on the transaction: op, arg, result
    lastSet,         \* history: per setter, the argument of its last successful call
    bodyEncodes,     \* history: transaction-body encodings performed so far
    bytes,           \* Option: the output of the last to_bytes
    tx2              \* Option: the AnyTransaction decoded by the last from_bytes

vars == <<data, frozen, transaction_id, last, lastSet, bodyEncodes, bytes, tx2>>

-----------------------------------------------------------------------------
(* Bounds of the model *)

MaxEncodes == 2     \* transaction-body encodings counted per transaction
MaxChunks == 2      \* largest ChunkInfo.total handed to the encoder

-----------------------------------------------------------------------------
(* Option and Result *)

None == [tag |-> "None"]
Some(v) == [tag |-> "Some", value |-> v]

Ok(v) == [outcome |-> "Ok", value |-> v]
Err(e) == [outcome |-> "Err", error |-> e]
Panic(msg) == [outcome |-> "Panic", message |-> msg]
Unit == [unit |-> TRUE]

-----------------------------------------------------------------------------
(* Value types *)

SecondsPerDay == 86400
DefaultAutoRenewDays == 90
TestAutoRenewDays == 1
AutoRenewAccountNum == 5007

\* time::Duration: whole seconds plus a sub-second part in nanoseconds
Duration_days(n) == [seconds |-> n * SecondsPerDay, nanoseconds |-> 0]
AUTO_RENEW_PERIOD == Duration_days(TestAutoRenewDays)
Durations == { Duration_days(DefaultAutoRenewDays), AUTO_RENEW_PERIOD,
               [seconds |-> 1, nanoseconds |-> 500000000] }

\* PublicKey handles, and Key as built from one by Into<Key>
PublicKeys == { [ed25519 |-> "K1"], [ed25519 |-> "K2"] }
Into_Key(pk) == [kind |-> "Single", public_key |-> pk]
Keys == { Into_Key(pk) : pk \in PublicKeys }

Memos == { "", "memo" }
Into_String(m) == m

\* Ledger (network) identities and entity-id checksums
LedgerIds == { "mainnet", "testnet" }
generate_checksum(ledger_id, shard, realm, num) ==
    [ledger |-> ledger_id, entity |-> <<shard, realm, num>>]

\* AccountId: shard.realm.num with an optional embedded checksum
AccountId_new(shard, realm, num) ==
    [shard |-> shard, realm |-> realm, num |-> num, checksum |-> None]
AUTO_RENEW_ACCOUNT_ID == AccountId_new(0, 0, AutoRenewAccountNum)
AccountNums == { 2, AutoRenewAccountNum }
AccountIds ==
    { AccountId_new(0, 0, n) : n \in AccountNums } \cup
    { [shard |-> 0, realm |-> 0, num |-> AutoRenewAccountNum,
       checksum |-> Some(generate_checksum(l, 0, 0, AutoRenewAccountNum))] :
         l \in LedgerIds }
\* accounts used as the payer of a transaction id
PayerIds == { a \in AccountIds : a.checksum = None }

OptionOf(S) == { None } \cup { Some(v) : v \in S }

\* every value of TopicCreateTransactionData within the bounds
Payloads ==
    [ topic_memo : Memos,
      admin_key : OptionOf(Keys),
      submit_key : OptionOf(Keys),
      auto_renew_period : OptionOf(Durations),
      auto_renew_account_id : OptionOf(AccountIds) ]

\* impl Default for TopicCreateTransactionData
Default ==
    [ topic_memo |-> "",
      admin_key |-> None,
      submit_key |-> None,
      auto_renew_period |-> Some(Duration_days(DefaultAutoRenewDays)),
      auto_renew_account_id |-> None ]

-----------------------------------------------------------------------------
(* Wire encoding of the value types *)

\* services::Duration carries a seconds count only
Duration_to_protobuf(d) == [seconds |-> d.seconds]
Duration_from_protobuf(pb) == [seconds |-> pb.seconds, nanoseconds |-> 0]

\* services::Key: a oneof; a message whose oneof is not set is malformed
Key_to_protobuf(k) == [key |-> Some([case |-> "Ed25519", bytes |-> k.public_key.ed25519])]
MalformedKeyPb == [key |-> None]
Key_from_protobuf(pb) ==
    IF pb.key = None
    THEN Err("FromProtobuf")
    ELSE Ok(Into_Key([ed25519 |-> pb.key.value.bytes]))

\* services::AccountId: shard_num, realm_num and the account oneof; no checksum
AccountId_to_protobuf(id) ==
    [shard_num |-> id.shard, realm_num |-> id.realm,
     account |-> Some([case |-> "AccountNum", num |-> id.num])]
AccountId_from_protobuf(pb) ==
    IF pb.account = None
    THEN Err("FromProtobuf")
    ELSE Ok(AccountId_new(pb.shard_num, pb.realm_num, pb.account.value.num))

\* Option<T>::to_protobuf
Option_Key_to_protobuf(o) == IF o = None THEN None ELSE Some(Key_to_protobuf(o.value))
Option_Duration_to_protobuf(o) ==
    IF o = None THEN None ELSE Some(Duration_to_protobuf(o.value))
Option_AccountId_to_protobuf(o) ==
    IF o = None THEN None ELSE Some(AccountId_to_protobuf(o.value))

\* Option<T>::from_protobuf: None decodes to None, Some(v) decodes v and may fail
Option_Key_from_protobuf(o) ==
    IF o = None THEN Ok(None)
    ELSE LET r == Key_from_protobuf(o.value)
         IN  IF r.outcome = "Ok" THEN Ok(Some(r.value)) ELSE r
Option_AccountId_from_protobuf(o) ==
    IF o = None THEN Ok(None)
    ELSE LET r == AccountId_from_protobuf(o.value)
         IN  IF r.outcome = "Ok" THEN Ok(Some(r.value)) ELSE r

-----------------------------------------------------------------------------
(* Chunk metadata of the owning transaction *)

TransactionId(payer) == [account_id |-> payer]
ChunkInfo_single(txid) == [current |-> 0, total |-> 1, current_transaction_id |-> txid]
ChunkInfos ==
    { [current |-> x[1], total |-> x[2], current_transaction_id |-> TransactionId(x[3])] :
        x \in { y \in (0..(MaxChunks - 1)) \X (1..MaxChunks) \X PayerIds : y[1] < y[2] } }

\* ChunkInfo::assert_single_transaction: aborts unless the metadata describes
\* exactly one chunk, else yields the current transaction id
assert_single_transaction(chunk_info) ==
    IF chunk_info.current = 0 /\ chunk_info.total = 1
    THEN Ok(chunk_info.current_transaction_id)
    ELSE Panic("assert_single_transaction")

-----------------------------------------------------------------------------
(* The payload's codec, checksum validation and dispatch *)

\* impl ToProtobuf for TopicCreateTransactionData
to_protobuf(self) ==
    [ auto_renew_account |-> Option_AccountId_to_protobuf(self.auto_renew_account_id),
      memo |-> self.topic_memo,
      admin_key |-> Option_Key_to_protobuf(self.admin_key),
      submit_key |-> Option_Key_to_protobuf(self.submit_key),
      auto_renew_period |-> Option_Duration_to_protobuf(self.auto_renew_period) ]

\* from_protobuf with the two keys read from each other's field
from_protobuf_swapped_keys(pb) ==
    LET admin == Option_Key_from_protobuf(pb.submit_key)
        submit == Option_Key_from_protobuf(pb.admin_key)
        account == Option_AccountId_from_protobuf(pb.auto_renew_account)
    IN  IF admin.outcome # "Ok" THEN admin
        ELSE IF submit.outcome # "Ok" THEN submit
        ELSE IF account.outcome # "Ok" THEN account
        ELSE Ok([ topic_memo |-> pb.memo,
                  admin_key |-> admin.value,
                  submit_key |-> submit.value,
                  auto_renew_period |->
                      IF pb.auto_renew_period = None THEN None
                      ELSE Some(Duration_from_protobuf(pb.auto_renew_period.value)),
                  auto_renew_account_id |-> account.value ])

\* impl FromProtobuf<services::ConsensusCreateTopicTransactionBody>
from_protobuf(pb) ==
    LET admin == Option_Key_from_protobuf(pb.admin_key)
        submit == Option_Key_from_protobuf(pb.submit_key)
        account == Option_AccountId_from_protobuf(pb.auto_renew_account)
    IN  IF admin.outcome # "Ok" THEN admin
        ELSE IF submit.outcome # "Ok" THEN submit
        ELSE IF account.outcome # "Ok" THEN account
        ELSE Ok([ topic_memo |-> pb.memo,
                  admin_key |-> admin.value,
                  submit_key |-> submit.value,
                  auto_renew_period |->
                      IF pb.auto_renew_period = None THEN None
                      ELSE Some(Duration_from_protobuf(pb.auto_renew_period.value)),
                  auto_renew_account_id |-> account.value ])

\* to_transaction_data_protobuf writing the operator over an account that is set
to_transaction_data_protobuf_always_operator(self, chunk_info) ==
    LET single == assert_single_transaction(chunk_info)
        operator_id == chunk_info.current_transaction_id.account_id
    IN  IF single.outcome = "Panic" THEN single
        ELSE Ok([ case |-> "ConsensusCreateTopic",
                  body |-> [to_protobuf(self) EXCEPT !.auto_renew_account =
                                Some(AccountId_to_protobuf(operator_id))] ])

\* to_transaction_data_protobuf without the operator default
to_transaction_data_protobuf_no_default(self, chunk_info) ==
    LET single == assert_single_transaction(chunk_info)
    IN  IF single.outcome = "Panic" THEN single
        ELSE Ok([ case |-> "ConsensusCreateTopic", body |-> to_protobuf(self) ])

\* to_transaction_data_protobuf without the single-chunk assertion
to_transaction_data_protobuf_unasserted(self, chunk_info) ==
    LET protobuf_data == to_protobuf(self)
        operator_id == chunk_info.current_transaction_id.account_id
    IN  Ok([ case |-> "ConsensusCreateTopic",
             body |-> IF protobuf_data.auto_renew_account = None
                      THEN [protobuf_data EXCEPT !.auto_renew_account =
                                Some(AccountId_to_protobuf(operator_id))]
                      ELSE protobuf_data ])

\* impl ToTransactionDataProtobuf: the payer fills an unset auto_renew_account
\* in the produced message only
to_transaction_data_protobuf(self, chunk_info) ==
    LET single == assert_single_transaction(chunk_info)
        protobuf_data == to_protobuf(self)
        operator_id == chunk_info.current_transaction_id.account_id
    IN  IF single.outcome = "Panic" THEN single
        ELSE Ok([ case |-> "ConsensusCreateTopic",
                  body |-> IF protobuf_data.auto_renew_account = None
                           THEN [protobuf_data EXCEPT !.auto_renew_account =
                                     Some(AccountId_to_protobuf(operator_id))]
                           ELSE protobuf_data ])

\* the schedulable encoding filling an unset auto_renew_account as well
to_schedulable_transaction_data_protobuf_with_operator(self) ==
    LET protobuf_data == to_protobuf(self)
    IN  Ok([ case |-> "ConsensusCreateTopic",
             body |-> IF protobuf_data.auto_renew_account = None
                      THEN [protobuf_data EXCEPT !.auto_renew_account =
                                Some(AccountId_to_protobuf(AccountId_new(0, 0, 2)))]
                      ELSE protobuf_data ])

\* impl ToSchedulableTransactionDataProtobuf
to_schedulable_transaction_data_protobuf(self) ==
    Ok([ case |-> "ConsensusCreateTopic", body |-> to_protobuf(self) ])

\* the payload wrapped in another case of the registry
From_TopicCreateTransactionData_other_case(transaction) ==
    [variant |-> "TopicUpdate", value |-> transaction]

\* impl From<TopicCreateTransactionData> for AnyTransactionData
From_TopicCreateTransactionData(transaction) ==
    [variant |-> "TopicCreate", value |-> transaction]

\* AccountId::validate_checksums: an embedded checksum must be the one the
\* supplied ledger id generates for the entity
AccountId_validate_checksums(id, ledger_id) ==
    IF id.checksum = None THEN Ok(Unit)
    ELSE IF id.checksum.value = generate_checksum(ledger_id, id.shard, id.realm, id.num)
         THEN Ok(Unit)
         ELSE Err("BadEntityId")

\* Option<T>::validate_checksums
Option_validate_checksums(o, ledger_id) ==
    IF o = None THEN Ok(Unit) ELSE AccountId_validate_checksums(o.value, ledger_id)

\* validate_checksums that looks at no field
validate_checksums_of_nothing(self, ledger_id) == Ok(Unit)

\* impl ValidateChecksums for TopicCreateTransactionData
validate_checksums(self, ledger_id) ==
    Option_validate_checksums(self.auto_renew_account_id, ledger_id)

\* impl TransactionExecute: the service method the request is handed to
execute(self, request) ==
    Ok([service |-> "ConsensusService", method |-> "create_topic", request |-> request])

-----------------------------------------------------------------------------
(* The generic Transaction wrapper, as far as the payload is used through it *)

\* Transaction::data_mut: the mutable view of the payload is refused, by an
\* abort, once the transaction is frozen
data_mut(is_frozen) ==
    IF is_frozen THEN Panic("transaction is immutable; it has been frozen") ELSE Ok(Unit)

\* the transaction body the wrapper encodes for its single chunk
transaction_body(payload, txid) ==
    to_transaction_data_protobuf(payload, ChunkInfo_single(txid))

\* protobuf bytes of a message: a field holding its default value (an empty
\* memo, an absent optional) is not written; a missing field reads as its default
OptionalFields == { "admin_key", "submit_key", "auto_renew_period", "auto_renew_account" }
prost_encode(pb) ==
    LET present == { f \in OptionalFields : pb[f] # None } \cup
                   (IF pb.memo = "" THEN {} ELSE { "memo" })
    IN  [ f \in present |-> IF f = "memo" THEN pb.memo ELSE pb[f].value ]
prost_decode(fields) ==
    LET opt(f) == IF f \in DOMAIN fields THEN Some(fields[f]) ELSE None
    IN  [ memo |-> IF "memo" \in DOMAIN fields THEN fields["memo"] ELSE "",
          admin_key |-> opt("admin_key"),
          submit_key |-> opt("submit_key"),
          auto_renew_period |-> opt("auto_renew_period"),
          auto_renew_account |-> opt("auto_renew_account") ]

\* Transaction::to_bytes of a frozen transaction: the transaction id and the
\* transaction body's data oneof
Transaction_to_bytes(payload, txid) ==
    LET body == transaction_body(payload, txid).value
    IN  [ transaction_id |-> [account_id |-> AccountId_to_protobuf(txid.account_id)],
          data |-> [case |-> body.case, fields |-> prost_encode(body.body)] ]

\* AnyTransactionData::from_protobuf: the oneof's case selects the decoder
AnyTransactionData_from_protobuf(case, pb) ==
    IF case = "ConsensusCreateTopic"
    THEN LET r == from_protobuf(pb)
         IN  IF r.outcome = "Ok" THEN Ok(From_TopicCreateTransactionData(r.value)) ELSE r
    ELSE Err("FromProtobuf")

\* AnyTransaction::from_bytes
AnyTransaction_from_bytes(b) ==
    LET d == AnyTransactionData_from_protobuf(b.data.case, prost_decode(b.data.fields))
        payer == AccountId_from_protobuf(b.transaction_id.account_id)
    IN  IF d.outcome # "Ok" THEN d
        ELSE IF payer.outcome # "Ok" THEN payer
        ELSE Ok([data |-> d.value, transaction_id |-> TransactionId(payer.value)])

-----------------------------------------------------------------------------
(* State after construction, and one action per operation *)

Call(op, arg, result) == [op |-> op, arg |-> arg, result |-> result]
NeverSet ==
    [ topic_memo |-> None, admin_key |-> None, submit_key |-> None,
      auto_renew_period |-> None, auto_renew_account_id |-> None ]

\* TopicCreateTransaction::new_for_tests: the defaulted payload, not frozen,
\* with a transaction id
Init ==
    /\ data = Default
    /\ frozen = FALSE
    /\ transaction_id \in { TransactionId(p) : p \in PayerIds }
    /\ last = Call("new", Unit, Ok(Unit))
    /\ lastSet = NeverSet
    /\ bodyEncodes = 0
    /\ bytes = None
    /\ tx2 = None

Rejected(op, arg, refusal) ==
    /\ last' = Call(op, arg, refusal)
    /\ UNCHANGED <<data, frozen, transaction_id, lastSet, bodyEncodes, bytes, tx2>>

Stored(op, arg, field, value) ==
    /\ data' = [data EXCEPT ![field] = value]
    /\ lastSet' = [lastSet EXCEPT ![op] = Some(arg)]
    /\ last' = Call(op, arg, Ok(Unit))
    /\ UNCHANGED <<frozen, transaction_id, bodyEncodes, bytes, tx2>>

\* topic_memo storing into a frozen transaction and making it mutable again
topic_memo_thawing(memo) ==
    /\ data' = [data EXCEPT !.topic_memo = Into_String(memo)]
    /\ frozen' = FALSE
    /\ lastSet' = [lastSet EXCEPT !.topic_memo = Some(memo)]
    /\ last' = Call("topic_memo", memo, Ok(Unit))
    /\ UNCHANGED <<transaction_id, bodyEncodes, bytes, tx2>>

topic_memo(memo) ==
    LET value == Into_String(memo)
        guard == data_mut(frozen)
    IN  IF guard.outcome = "Panic"
        THEN Rejected("topic_memo", memo, guard)
        ELSE Stored("topic_memo", memo, "topic_memo", value)

\* admin_key writing the field without asking for the mutable view
admin_key_unguarded(key) ==
    Stored("admin_key", key, "admin_key", Some(Into_Key(key)))

admin_key(key) ==
    LET value == Some(Into_Key(key))
        guard == data_mut(frozen)
    IN  IF guard.outcome = "Panic"
        THEN Rejected("admin_key", key, guard)
        ELSE Stored("admin_key", key, "admin_key", value)

\* submit_key storing into the admin key's field
submit_key_into_admin_key(key) ==
    LET value == Some(Into_Key(key))
        guard == data_mut(frozen)
    IN  IF guard.outcome = "Panic"
        THEN Rejected("submit_key", key, guard)
        ELSE Stored("submit_key", key, "admin_key", value)

submit_key(key) ==
    LET value == Some(Into_Key(key))
        guard == data_mut(frozen)
    IN  IF guard.outcome = "Panic"
        THEN Rejected("submit_key", key, guard)
        ELSE Stored("submit_key", key, "submit_key", value)

auto_renew_period(period) ==
    LET value == Some(period)
        guard == data_mut(frozen)
    IN  IF guard.outcome = "Panic"
        THEN Rejected("auto_renew_period", period, guard)
        ELSE Stored("auto_renew_period", period, "auto_renew_period", value)

auto_renew_account_id(id) ==
    LET value == Some(id)
        guard == data_mut(frozen)
    IN  IF guard.outcome = "Panic"
        THEN Rejected("auto_renew_account_id", id, guard)
        ELSE Stored("auto_renew_account_id", id, "auto_renew_account_id", value)

Observed(op, arg, result) ==
    /\ last' = Call(op, arg, result)
    /\ UNCHANGED <<data, frozen, transaction_id, lastSet, bodyEncodes, bytes, tx2>>

get_topic_memo == Observed("get_topic_memo", Unit, Ok(data.topic_memo))
get_admin_key == Observed("get_admin_key", Unit, Ok(data.admin_key))
get_submit_key == Observed("get_submit_key", Unit, Ok(data.submit_key))
get_auto_renew_period == Observed("get_auto_renew_period", Unit, Ok(data.auto_renew_period))
get_auto_renew_account_id ==
    Observed("get_auto_renew_account_id", Unit, Ok(data.auto_renew_account_id))

\* Transaction::freeze: the one transition of the frozen flag
freeze ==
    /\ frozen' = TRUE
    /\ last' = Call("freeze", Unit, Ok(Unit))
    /\ UNCHANGED <<data, transaction_id, lastSet, bodyEncodes, bytes, tx2>>

ValidateChecksums(ledger_id) ==
    Observed("validate_checksums", ledger_id, validate_checksums(data, ledger_id))

\* the wrapper encodes the transaction body of a frozen transaction
EncodeTransactionBody ==
    /\ frozen
    /\ bodyEncodes < MaxEncodes
    /\ bodyEncodes' = bodyEncodes + 1
    /\ last' = Call("to_transaction_data_protobuf", ChunkInfo_single(transaction_id),
                    to_transaction_data_protobuf(data, ChunkInfo_single(transaction_id)))
    /\ UNCHANGED <<data, frozen, transaction_id, lastSet, bytes, tx2>>

EncodeSchedulable ==
    Observed("to_schedulable_transaction_data_protobuf", Unit,
             to_schedulable_transaction_data_protobuf(data))

ToBytes ==
    /\ frozen
    /\ bytes' = Some(Transaction_to_bytes(data, transaction_id))
    /\ last' = Call("to_bytes", Unit, Ok(Unit))
    /\ UNCHANGED <<data, frozen, transaction_id, lastSet, bodyEncodes, tx2>>

FromBytes ==
    /\ bytes # None
    /\ LET r == AnyTransaction_from_bytes(bytes.value)
       IN  /\ tx2' = IF r.outcome = "Ok" THEN Some(r.value) ELSE None
           /\ last' = Call("from_bytes", Unit,
                           IF r.outcome = "Ok" THEN Ok(Unit) ELSE r)
    /\ UNCHANGED <<data, frozen, transaction_id, lastSet, bodyEncodes, bytes>>

Execute ==
    /\ frozen
    /\ Observed("execute", Unit,
                execute(data, transaction_body(data, transaction_id).value))

Next ==
    \/ \E memo \in Memos : topic_memo(memo)
    \/ \E key \in PublicKeys : admin_key(key)
    \/ \E key \in PublicKeys : submit_key(key)
    \/ \E period \in Durations : auto_renew_period(period)
    \/ \E id \in AccountIds : auto_renew_account_id(id)
    \/ get_topic_memo
    \/ get_admin_key
    \/ get_submit_key
    \/ get_auto_renew_period
    \/ get_auto_renew_account_id
    \/ freeze
    \/ \E ledger_id \in LedgerIds : ValidateChecksums(ledger_id)
    \/ EncodeTransactionBody
    \/ EncodeSchedulable
    \/ ToBytes
    \/ FromBytes
    \/ Execute

Spec == Init /\ [][Next]_vars

-----------------------------------------------------------------------------
(* The codec as pure functions: every payload value, every chunk metadata *)

InitCodec ==
    /\ data \in Payloads
    /\ frozen = FALSE
    /\ transaction_id = TransactionId(AccountId_new(0, 0, 2))
    /\ last = Call("new", Unit, Ok(Unit))
    /\ lastSet = NeverSet
    /\ bodyEncodes = 0
    /\ bytes = None
    /\ tx2 = None

\* from_protobuf applied to the message to_protobuf produces
CodecRoundTrip ==
    Observed("from_protobuf", to_protobuf(data), from_protobuf(to_protobuf(data)))

\* from_protobuf applied to the message a schedulable encoding carries
CodecSchedulableRoundTrip ==
    LET pb == to_schedulable_transaction_data_protobuf(data).value.body
    IN  Observed("from_protobuf(schedulable)", pb, from_protobuf(pb))

\* from_protobuf applied to a message whose admin key is malformed
CodecMalformed ==
    LET pb == [to_protobuf(data) EXCEPT !.admin_key = Some(MalformedKeyPb)]
    IN  Observed("from_protobuf(malformed)", pb, from_protobuf(pb))

CodecEncodeBody(chunk_info) ==
    Observed("to_transaction_data_protobuf", chunk_info,
             to_transaction_data_protobuf(data, chunk_info))

NextCodec ==
    \/ CodecRoundTrip
    \/ CodecSchedulableRoundTrip
    \/ CodecMalformed
    \/ \E chunk_info \in ChunkInfos : CodecEncodeBody(chunk_info)
    \/ EncodeSchedulable

SpecCodec == InitCodec /\ [][NextCodec]_vars

-----------------------------------------------------------------------------
(* Properties *)

Setters ==
    { "topic_memo", "admin_key", "submit_key", "auto_renew_period", "auto_renew_account_id" }
Getters ==
    { "get_topic_memo", "get_admin_key", "get_submit_key", "get_auto_renew_period",
      "get_auto_renew_account_id" }
Schedulable == "to_schedulable_transaction_data_protobuf"
BodyEncoding == "to_transaction_data_protobuf"

\* an optional duration cut to whole seconds, the only part the wire carries
WholeSeconds(o) ==
    IF o = None THEN None
    ELSE Some([seconds |-> o.value.seconds, nanoseconds |-> 0])
\* an optional account id without its checksum, which the wire does not carry
WithoutChecksum(o) ==
    IF o = None THEN None ELSE Some([o.value EXCEPT !.checksum = None])
\* the wire message naming account `id`
NamesAccount(sent, id) ==
    /\ sent # None
    /\ sent.value.shard_num = id.shard
    /\ sent.value.realm_num = id.realm
    /\ sent.value.account = Some([case |-> "AccountNum", num |-> id.num])

\* C1: a setter called on a frozen transaction aborts, and the payload and
\* the frozen flag are what they were before the call.
C1_FrozenSetterAborts ==
    [][ (frozen /\ last'.op \in Setters) =>
            /\ last'.result.outcome = "Panic"
            /\ data' = data
            /\ frozen' = frozen ]_vars

C1_Witness ==
    /\ frozen
    /\ last.op = "auto_renew_account_id"
    /\ last.result.outcome = "Panic"
    /\ data.auto_renew_account_id # Some(last.arg)

\* C2: the transaction body encoded from a frozen transaction names the
\* paying account of the encode call's transaction id as auto_renew_account
\* when the payload has none, and the payload's own account when it has one,
\* whoever pays.
C2_BodyEncodingAutoRenewAccount ==
    (frozen /\ last.op = BodyEncoding) =>
        /\ last.result.outcome = "Ok"
        /\ last.arg.current_transaction_id = transaction_id
        /\ NamesAccount(last.result.value.body.auto_renew_account,
                        IF data.auto_renew_account_id = None
                        THEN last.arg.current_transaction_id.account_id
                        ELSE data.auto_renew_account_id.value)

C2_Witness ==
    /\ frozen
    /\ last.op = BodyEncoding
    /\ data.auto_renew_account_id # None
    /\ data.auto_renew_account_id.value.num # transaction_id.account_id.num
    /\ last.result.value.body.auto_renew_account.value.account.value.num =
           data.auto_renew_account_id.value.num

\* C3: the schedulable encoding of a payload without auto-renew account has
\* no auto_renew_account, whatever was encoded before it, and neither
\* encoding changes the payload.
C3_SchedulableHasNoPayer ==
    /\ [][ (last'.op = Schedulable /\ data.auto_renew_account_id = None) =>
               /\ last'.result.outcome = "Ok"
               /\ last'.result.value.body.auto_renew_account = None
               /\ data'.auto_renew_account_id = None ]_vars
    /\ [][ last'.op \in { Schedulable, BodyEncoding } => data' = data ]_vars

C3_Witness ==
    /\ frozen
    /\ bodyEncodes = MaxEncodes
    /\ last.op = Schedulable
    /\ data.auto_renew_account_id = None
    /\ last.result.value.body.auto_renew_account = None

\* C4: the transaction starts not frozen, only freeze makes it frozen, and a
\* frozen transaction stays frozen whatever is called on it.
C4_FreezeIsOneWay ==
    /\ frozen = FALSE
    /\ [][ frozen => frozen' ]_vars
    /\ [][ (~frozen /\ frozen') => last'.op = "freeze" ]_vars

C4_Witness ==
    /\ frozen
    /\ bodyEncodes = MaxEncodes
    /\ tx2 # None
    /\ last.op \in Setters

\* C5 as stated: the payload decoded from its own encoding equals the payload.
C5_RoundTripIsIdentity ==
    last.op \in { "from_protobuf", "from_protobuf(schedulable)" } =>
        last.result = Ok(data)

\* C5: decoding the payload's own encoding (the schedulable one included)
\* succeeds and gives back the memo, the keys, the auto-renew period cut to
\* whole seconds and the auto-renew account without its checksum; an unset
\* field comes back unset.
C5_RoundTripUpToWire ==
    last.op \in { "from_protobuf", "from_protobuf(schedulable)" } =>
        /\ last.result.outcome = "Ok"
        /\ last.result.value.topic_memo = data.topic_memo
        /\ last.result.value.admin_key = data.admin_key
        /\ last.result.value.submit_key = data.submit_key
        /\ last.result.value.auto_renew_period = WholeSeconds(data.auto_renew_period)
        /\ last.result.value.auto_renew_account_id =
               WithoutChecksum(data.auto_renew_account_id)

C5_Witness ==
    /\ last.op = "from_protobuf(schedulable)"
    /\ data.admin_key # None
    /\ data.submit_key = None
    /\ data.auto_renew_period # None
    /\ data.auto_renew_account_id = None
    /\ last.result.outcome = "Ok"
    /\ last.result.value.auto_renew_account_id = None

\* C6 as stated: the transaction decoded from the bytes of a frozen
\* transaction holds a payload equal to its payload, field by field.
C6_BytesRoundTripIsIdentity ==
    tx2 # None =>
        /\ tx2.value.data.value.topic_memo = data.topic_memo
        /\ tx2.value.data.value.admin_key = data.admin_key
        /\ tx2.value.data.value.submit_key = data.submit_key
        /\ tx2.value.data.value.auto_renew_period = data.auto_renew_period
        /\ tx2.value.data.value.auto_renew_account_id = data.auto_renew_account_id

\* C6: the transaction decoded from the bytes of a frozen transaction holds a
\* topic-create payload with the same memo and keys, the auto-renew period
\* cut to whole seconds, and as auto-renew account the payload's own (without
\* checksum) or, when the payload has none, the paying account.
C6_BytesRoundTripUpToDefault ==
    tx2 # None =>
        /\ tx2.value.data.variant = "TopicCreate"
        /\ tx2.value.data.value.topic_memo = data.topic_memo
        /\ tx2.value.data.value.admin_key = data.admin_key
        /\ tx2.value.data.value.submit_key = data.submit_key
        /\ tx2.value.data.value.auto_renew_period = WholeSeconds(data.auto_renew_period)
        /\ tx2.value.data.value.auto_renew_account_id =
               IF data.auto_renew_account_id = None
               THEN WithoutChecksum(Some(transaction_id.account_id))
               ELSE WithoutChecksum(data.auto_renew_account_id)

C6_Witness ==
    /\ tx2 # None
    /\ data.admin_key # None
    /\ data.submit_key # None
    /\ data.auto_renew_account_id = None
    /\ tx2.value.data.value.auto_renew_account_id = Some(transaction_id.account_id)

\* C7: decoding the bytes of a frozen transaction succeeds, selects the
\* TopicCreate case, and the decoded transaction encodes to the same
\* transaction body as the original.
C7_ReencodedBodyIsIdentical ==
    /\ last.op = "from_bytes" => (last.result.outcome = "Ok" /\ tx2 # None)
    /\ tx2 # None =>
           /\ tx2.value.data.variant = "TopicCreate"
           /\ transaction_body(tx2.value.data.value, tx2.value.transaction_id) =
                  transaction_body(data, transaction_id)

C7_Witness ==
    /\ last.op = "from_bytes"
    /\ tx2 # None
    /\ data.topic_memo = ""
    /\ data.admin_key # None
    /\ data.submit_key # None
    /\ data.auto_renew_period = Some(AUTO_RENEW_PERIOD)
    /\ data.auto_renew_account_id = Some(AUTO_RENEW_ACCOUNT_ID)

\* C8: after freezing, each getter returns the value last passed to its
\* setter; getters never fail; freezing changes no payload field.
C8_GettersReturnLastSet ==
    /\ [](last.op \in Getters => last.result.outcome = "Ok")
    /\ []((frozen /\ last.op = "get_topic_memo" /\ lastSet.topic_memo # None) =>
              last.result.value = Into_String(lastSet.topic_memo.value))
    /\ []((frozen /\ last.op = "get_admin_key" /\ lastSet.admin_key # None) =>
              last.result.value = Some(Into_Key(lastSet.admin_key.value)))
    /\ []((frozen /\ last.op = "get_submit_key" /\ lastSet.submit_key # None) =>
              last.result.value = Some(Into_Key(lastSet.submit_key.value)))
    /\ []((frozen /\ last.op = "get_auto_renew_period" /\ lastSet.auto_renew_period # None) =>
              last.result.value = lastSet.auto_renew_period)
    /\ []((frozen /\ last.op = "get_auto_renew_account_id"
                  /\ lastSet.auto_renew_account_id # None) =>
              last.result.value = lastSet.auto_renew_account_id)
    /\ [][ last'.op = "freeze" => data' = data ]_vars

C8_Witness ==
    /\ frozen
    /\ last.op = "get_submit_key"
    /\ lastSet.submit_key # None
    /\ lastSet.admin_key # None
    /\ lastSet.admin_key # lastSet.submit_key
    /\ last.result.value = Some(Into_Key(lastSet.submit_key.value))

C10_SingleChunkOnly ==
    /\ last.op = BodyEncoding =>
           IF last.arg.total = 1
           THEN /\ last.result.outcome = "Ok"
                /\ last.result.value.case = "ConsensusCreateTopic"
           ELSE last.result.outcome = "Panic"
    /\ last.op = Schedulable =>
           /\ last.result.outcome = "Ok"
           /\ last.result.value.case = "ConsensusCreateTopic"

C10_Witness ==
    /\ last.op = BodyEncoding
    /\ last.arg.total > 1
    /\ last.result.outcome = "Panic"

====
